---- MODULE Spec2Model ----
(***************************************************************************)
(* A kernel session of the notebook biomech_simlab.ipynb: the load-stepping *)
(* cells (neo-Hookean, Guccione, pressure) and refine_benchmark, executed   *)
(* one statement at a time, together with the cells that redefine the      *)
(* problem between them.                                                   *)
(*                                                                         *)
(* Numbers.  A load value is an exact rational <<num, den>> in lowest      *)
(* terms (den > 0); displacements are in mm, pressures in 1e-3 kPa, so     *)
(* that 0.004 kPa is <<4, 1>>.  Rounding of the floating point operations  *)
(* is not represented.                                                     *)
(*                                                                         *)
(* Fields.  A displacement field is a record: the zero vector, the field   *)
(* a converged solve leaves for a problem and its boundary loads, or the   *)
(* iterate a failed solve leaves.                                          *)
(*                                                                         *)
(* solve().  The nonlinear solve belongs to dolfin.  It is modelled as a   *)
(* deterministic function of the problem, the initial guess and the        *)
(* boundary loads; whether it converges is decided by two parameters of    *)
(* the session, radius (largest load jump from the guess Newton survives)  *)
(* and limit (largest load magnitude that has a solution).                 *)
(*                                                                         *)
(* Blanks.  The notebook is an exercise sheet.  The bodies of def_grad,    *)
(* W_neohook, W_guccione and the redefinition of Pi, G, dG (lines 477-480) *)
(* are taken as completed the way the text beside them says; the 10 mm of  *)
(* line 339 is the value of the text of line 330.  Line 603, a bare None   *)
(* statement, is modelled as written: it does nothing.                     *)
(*                                                                         *)
(* A session.  Cells are started in any order, one at a time, each with    *)
(* any step count and target of StepCounts and Targets; MaxCells bounds    *)
(* the number of cells started.  n_steps, target, increment, the two lists *)
(* and the counters describe the cell that is executing or ran last.       *)
(***************************************************************************)
EXTENDS Integers, Sequences, FiniteSets, TLC

\* ------------------------------------------------------------- bounds
MaxSteps == 2
MaxTarget == 1
SmallRadius == 1
SmallLimit == 2
NoLimit == 20
MaxCells == 3

\* ------------------------------------------------- program constants
N_STEPS == 10
MAX_DISP == 10
TOTAL_FORCE == 4
TOTAL_PRESSURE == 4
STEPS == 10
NX_GLOBAL == 20

\* The step counts and targets a cell is run with: the literals of the
\* notebook and the small values around the boundary cases.
StepCounts == (0 .. MaxSteps) \cup {N_STEPS, STEPS}
Targets == (0 .. MaxTarget) \cup {MAX_DISP, TOTAL_FORCE}
Meshes == {20, 40}
Radii == {SmallRadius, NoLimit}
Limits == {SmallLimit, NoLimit}

\* ----------------------------------------------------------- rationals
Abs(x) == IF x < 0 THEN 0 - x ELSE x

RECURSIVE Gcd(_, _)
Gcd(a, b) == IF b = 0 THEN a ELSE Gcd(b, a % b)

\* num/den in lowest terms with a positive denominator (den # 0).
Rat(num, den) ==
    LET g == Gcd(Abs(num), Abs(den))
        s == IF den < 0 THEN 0 - 1 ELSE 1
    IN  <<(s * num) \div g, (s * den) \div g>>

Rat0 == <<0, 1>>
RatOfInt(k) == <<k, 1>>
\* Python's name-not-bound: no rational has denominator 0.
Unbound == <<0, 0>>

RatDivInt(q, k) == Rat(q[1], q[2] * k)
RatMulInt(q, k) == Rat(q[1] * k, q[2])
RatLess(a, b) == a[1] * b[2] < b[1] * a[2]
RatLeq(a, b) == a[1] * b[2] <= b[1] * a[2]
RatAbs(a) == <<Abs(a[1]), a[2]>>
RatSub(a, b) == Rat(a[1] * b[2] - b[1] * a[2], a[2] * b[2])
RatGap(a, b) == RatAbs(RatSub(a, b))


\* -------------------------------------------------------------- fields
\* np.zeros_like(u.vector().get_local()): the zero vector on a mesh.
ZeroField(m) ==
    [st |-> "zeros", W |-> "none", ext |-> FALSE, bcs |-> "none",
     disp |-> Rat0, press |-> Rat0, mesh |-> m]

\* A residual: the energy it derives from and whether Gext is added.
Residual(w, e) == [W |-> w, ext |-> e]

\* derivative(G, u, du): the Jacobian of a residual.
Jacobian(Gv) == [of |-> Gv]

\* The loads a problem is under: r acts through bcr only, pressure
\* through Gext only.
EffDisp(bcsv, rv) == IF bcsv = "left_right" THEN rv ELSE Rat0
EffPress(Gv, pv) == IF Gv.ext THEN pv ELSE Rat0

\* Variant of Converged: the solution returned on another mesh.
ConvergedRemeshed(Gv, bcsv, rv, pv, m) ==
    [st |-> "conv", W |-> Gv.W, ext |-> Gv.ext, bcs |-> bcsv,
     disp |-> EffDisp(bcsv, rv), press |-> EffPress(Gv, pv), mesh |-> m + 1]

\* The field a converged solve of (Gv, bcsv) under (rv, pv) leaves: a
\* vector of the function space of the guess.
Converged(Gv, bcsv, rv, pv, m) ==
    [st |-> "conv", W |-> Gv.W, ext |-> Gv.ext, bcs |-> bcsv,
     disp |-> EffDisp(bcsv, rv), press |-> EffPress(Gv, pv), mesh |-> m]

\* The iterate a failed solve leaves.
Diverged(Gv, bcsv, rv, pv, m) ==
    [st |-> "div", W |-> Gv.W, ext |-> Gv.ext, bcs |-> bcsv,
     disp |-> EffDisp(bcsv, rv), press |-> EffPress(Gv, pv), mesh |-> m]

\* Newton from guess u0 converges when the loads are within reach.
Converges(rad, lim, u0, Gv, bcsv, rv, pv) ==
    /\ RatLeq(RatGap(EffDisp(bcsv, rv), u0.disp), RatOfInt(rad))
    /\ RatLeq(RatGap(EffPress(Gv, pv), u0.press), RatOfInt(rad))
    /\ RatLeq(RatAbs(EffDisp(bcsv, rv)), RatOfInt(lim))
    /\ RatLeq(RatAbs(EffPress(Gv, pv)), RatOfInt(lim))

\* solve(G == 0, u, bcs, J=dG): the field u holds afterwards.
SolveField(rad, lim, u0, Gv, bcsv, rv, pv) ==
    IF Converges(rad, lim, u0, Gv, bcsv, rv, pv)
    THEN Converged(Gv, bcsv, rv, pv, u0.mesh)
    ELSE Diverged(Gv, bcsv, rv, pv, u0.mesh)

\* ------------------------------------------------------- measurements
\* The literal 0 the lists start with.
ZeroEntry == [q |-> "zero", of |-> "none", at |-> ZeroField(0)]

\* get_stress(Z, P): P projected at the field u currently holds.
get_stress(Pv, uv) == [q |-> "stress", of |-> Pv, at |-> uv]

\* get_disp(V, u): the tip displacement of u.
get_disp(uv) == [q |-> "tip", of |-> "u", at |-> uv]

\* --------------------------------------------------------------- state
VARIABLES
    radius, limit,          \* the solver's convergence parameters
    W, G, dG, bcs, P,       \* notebook-level problem definition
    u, r, pressure,         \* notebook-level field and load Constants
    total_force,            \* notebook-level name; Unbound until cell 43
    run, pc, err,           \* the cell executing, its position, its error
    i, n_steps, target, increment,   \* of the executing cell
    current_pressure,       \* refine_benchmark's local
    mesh_loc, u_loc, pressure_loc,   \* refine_benchmark's locals
    loads, meas,            \* the two lists the executing cell builds
    printed,                \* the load values printed by the cell
    assigned,               \* the values given to the boundary parameter
    solves, inflight,       \* solve() calls begun / not yet returned
    solvedAt,               \* the loads <<r, pressure>> each solve() was begun under
    failedAt,               \* step whose solve failed, 0 if none
    lastSolved,             \* the field the last solve of the cell left
    dirtyStart,             \* u was nonzero when the cell was started
    afterRefine,            \* the cell run before it was a refine_benchmark call
    cells                   \* cells started so far in the session

vars == <<radius, limit, W, G, dG, bcs, P, u, r, pressure, total_force,
          run, pc, err, i, n_steps, target, increment, current_pressure,
          mesh_loc, u_loc, pressure_loc, loads, meas, printed, assigned,
          solves, inflight, solvedAt, failedAt, lastSolved, dirtyStart,
          afterRefine, cells>>

solverVars == <<radius, limit>>
problemVars == <<W, G, dG, bcs, P>>
localVars == <<mesh_loc, u_loc, pressure_loc, current_pressure>>

\* The state after the cells up to line 323 have run in order: the
\* neo-Hookean problem, r = (1,0,0), one solve from the zero field.
Init ==
    /\ radius \in Radii
    /\ limit \in Limits
    /\ W = "neo"
    /\ G = Residual("neo", FALSE)
    /\ dG = Jacobian(G)
    /\ bcs = "left_right"
    /\ P = "neo"
    /\ r = RatOfInt(1)
    /\ pressure = Unbound
    /\ u = SolveField(radius, limit, ZeroField(NX_GLOBAL), G, bcs, r, Rat0)
    /\ total_force = Unbound
    /\ run = "none"
    /\ pc = "idle"
    /\ err = "none"
    /\ i = 0
    /\ n_steps = 0
    /\ target = Rat0
    /\ increment = Unbound
    /\ current_pressure = Rat0
    /\ mesh_loc = 0
    /\ u_loc = ZeroField(0)
    /\ pressure_loc = Rat0
    /\ loads = <<>>
    /\ meas = <<>>
    /\ printed = <<>>
    /\ assigned = <<>>
    /\ solves = 0
    /\ inflight = 0
    /\ solvedAt = <<>>
    /\ failedAt = 0
    /\ lastSolved = ZeroField(0)
    /\ dirtyStart = FALSE
    /\ afterRefine = FALSE
    /\ cells = 0


\* ------------------------------------------------------ code fragments
\* The kernel runs one cell at a time: a cell can start only when none
\* is executing.
KernelIdle == pc \in {"idle", "done", "error"} /\ cells < MaxCells

\* Variants of ResetField: the reset left out; the reset done only after
\* a failed solve.
ResetFieldSkipped(uv) == uv
ResetFieldAfterFailureOnly(uv) == IF uv.st = "div" THEN ZeroField(uv.mesh) ELSE uv

\* u.vector().set_local(zeros), lines 367-368, 499-500, 596-597.
ResetField(uv) == ZeroField(uv.mesh)

\* Variant of LoadAt: the loop index used without the +1.
LoadAtIndex(inc, k) == RatMulInt(inc, k)

\* increment*(i+1) and total_force/steps*(i+1): the load of loop index k.
LoadAt(inc, k) == RatMulInt(inc, k + 1)

\* Variant of AppendTo: the list rebound to a one-element list.
AppendToReplaces(list, v) == <<v>>

\* list.append(v)
AppendTo(list, v) == Append(list, v)

\* Variant of FieldAfterSample: the projection written into u.
FieldAfterSampleClobbered(uv) == [uv EXCEPT !.st = "projected"]

\* What u holds after get_stress / get_disp sampled it: both only read
\* u.vector() (project() builds a new function).
FieldAfterSample(uv) == uv

\* Variant of FailPc: the exception swallowed, the body going on.
FailPcSwallowed == "record"

\* Where control goes when solve() raises: nothing in the loops catches
\* the exception, so the cell ends.
FailPc == "error"

\* Variant of AfterBody: the loop over range(n-1).
AfterBodyShort(k, n) == IF k + 2 < n THEN "set" ELSE "done"

\* The position after a loop body ended with index k: range(n) yields
\* k+1 when there is one, else the statements after the loop run
\* (plot_beam, return).
AfterBody(k, n) == IF k + 1 < n THEN "set" ELSE "done"

\* The position a loop over range(n) starts at.
LoopEntry(n) == IF 0 < n THEN "set" ELSE "done"

\* The field, residual, boundary conditions and loads the running cell
\* passes to solve().
RunField == IF run = "refine" THEN u_loc ELSE u
RunG == IF run = "refine" THEN Residual("guc", TRUE) ELSE G
RunBcs == IF run = "refine" THEN "left" ELSE bcs
RunDisp == IF run = "refine" THEN Rat0 ELSE r
RunPress ==
    IF run = "refine" THEN pressure_loc
    ELSE IF G.ext THEN pressure ELSE Rat0

\* Variant of AfterSetLoad: the pair recorded before the solve.
AfterSetLoadRecords == "record"

\* The statement after the one that sets the load: solve().
AfterSetLoad == "solve"

\* Variant of NewFunction: the field of the previous call kept.
NewFunctionKept(m) == [u_loc EXCEPT !.mesh = m]

\* u = Function(V), line 631: a new function, all zeros, on the mesh the
\* call has just built.
NewFunction(m) == ZeroField(m)

\* Variant of AtLoopTop: the next step begun while solve() is running.
AtLoopTopOrSolving == pc \in {"set", "solving"}

\* A set-load statement may run: the loop is at the top of its body.
AtLoopTop == pc = "set"

\* What every cell start does to the bookkeeping of the run.
StartBookkeeping ==
    /\ err' = "none"
    /\ i' = 0
    /\ printed' = <<>>
    /\ assigned' = <<>>
    /\ solves' = 0
    /\ inflight' = 0
    /\ solvedAt' = <<>>
    /\ failedAt' = 0
    /\ dirtyStart' = (u.st # "zeros")
    /\ afterRefine' = (run = "refine")
    /\ cells' = cells + 1

\* No call of refine_benchmark is active: its locals do not exist.
NoFrame ==
    /\ mesh_loc' = 0
    /\ u_loc' = ZeroField(0)
    /\ pressure_loc' = Rat0
    /\ current_pressure' = Rat0

\* -------------------------------------------------------------- cells
\* Lines 366-375 and 498-507: the head of a displacement-controlled run.
BeginDisp(kind, n, L) ==
    /\ KernelIdle
    /\ run' = kind
    /\ u' = ResetField(u)
    /\ lastSolved' = ResetField(u)
    /\ n_steps' = n
    /\ target' = RatOfInt(L)
    /\ StartBookkeeping
    /\ IF n = 0
       THEN \* increment = max_disp/n_steps raises ZeroDivisionError
            /\ pc' = "error"
            /\ err' = "ZeroDivisionError"
            /\ increment' = Unbound
            /\ loads' = <<>>
            /\ meas' = <<>>
       ELSE /\ pc' = LoopEntry(n)
            /\ increment' = RatDivInt(RatOfInt(L), n)
            /\ loads' = <<Rat0>>
            /\ meas' = <<ZeroEntry>>
    /\ NoFrame
    /\ UNCHANGED <<solverVars, problemVars, r, pressure, total_force>>

\* Lines 378-379 and 510-511: print, r.assign.
SetLoadDisp ==
    /\ AtLoopTop
    /\ run \in {"neo", "guc"}
    /\ printed' = Append(printed, LoadAt(increment, i))
    /\ r' = LoadAt(increment, i)
    /\ assigned' = Append(assigned, LoadAt(increment, i))
    /\ pc' = AfterSetLoad
    /\ UNCHANGED <<solverVars, problemVars, u, pressure, total_force, run, err,
                   i, n_steps, target, increment, localVars, loads, meas,
                   solves, inflight, solvedAt, failedAt, lastSolved,
                   dirtyStart, afterRefine, cells>>

\* Lines 595-601: the head of the pressure run.
BeginPressure(n, tf) ==
    /\ KernelIdle
    /\ run' = "pressure"
    /\ u' = ResetField(u)
    /\ lastSolved' = ResetField(u)
    /\ total_force' = RatOfInt(tf)
    /\ n_steps' = n
    /\ target' = RatOfInt(tf)
    /\ StartBookkeeping
    /\ pc' = LoopEntry(n)
    /\ loads' = <<>>
    /\ meas' = <<>>
    /\ increment' = Unbound
    /\ NoFrame
    /\ UNCHANGED <<solverVars, problemVars, r, pressure>>

\* Lines 602-603: print; the statement None changes nothing.
SetLoadPressure ==
    /\ AtLoopTop
    /\ run = "pressure"
    /\ printed' = Append(printed, LoadAt(RatDivInt(total_force, n_steps), i))
    /\ pc' = AfterSetLoad
    /\ UNCHANGED <<solverVars, problemVars, u, r, pressure, total_force, run,
                   err, i, n_steps, target, increment, localVars, loads, meas,
                   assigned, solves, inflight, solvedAt, failedAt, lastSolved,
                   dirtyStart, afterRefine, cells>>

\* Lines 625-657: refine_benchmark builds its own problem.
BeginRefine(n, m) ==
    /\ KernelIdle
    /\ run' = "refine"
    /\ mesh_loc' = m
    /\ u_loc' = NewFunction(m)
    /\ lastSolved' = NewFunction(m)
    /\ pressure_loc' = Rat0
    /\ current_pressure' = Rat0
    /\ target' = RatOfInt(TOTAL_PRESSURE)
    /\ n_steps' = n
    /\ StartBookkeeping
    /\ pc' = LoopEntry(n)
    /\ loads' = <<Rat0>>
    /\ meas' = <<ZeroEntry>>
    /\ increment' = Unbound
    /\ UNCHANGED <<solverVars, problemVars, u, r, pressure, total_force>>

\* Lines 658-659: current_pressure = total_force/steps*(i+1), read from
\* the notebook's namespace; pressure.assign.
SetLoadRefine ==
    /\ AtLoopTop
    /\ run = "refine"
    /\ IF total_force = Unbound
       THEN /\ pc' = "error"
            /\ err' = "NameError"
            /\ UNCHANGED <<current_pressure, pressure_loc, assigned>>
       ELSE /\ pc' = AfterSetLoad
            /\ err' = err
            /\ current_pressure' = LoadAt(RatDivInt(total_force, n_steps), i)
            /\ pressure_loc' = LoadAt(RatDivInt(total_force, n_steps), i)
            /\ assigned' = Append(assigned, LoadAt(RatDivInt(total_force, n_steps), i))
    /\ UNCHANGED <<solverVars, problemVars, u, r, pressure, total_force, run,
                   i, n_steps, target, increment, mesh_loc, u_loc, loads, meas,
                   printed, solves, inflight, solvedAt, failedAt, lastSolved,
                   dirtyStart, afterRefine, cells>>

\* Lines 380, 512, 604, 660: solve() is entered ...
SolveBegin ==
    /\ pc = "solve"
    /\ pc' = "solving"
    /\ solves' = solves + 1
    /\ inflight' = inflight + 1
    /\ solvedAt' = Append(solvedAt, <<RunDisp, RunPress>>)
    /\ UNCHANGED <<solverVars, problemVars, u, r, pressure, total_force, run,
                   err, i, n_steps, target, increment, localVars, loads, meas,
                   printed, assigned, failedAt, lastSolved, dirtyStart,
                   afterRefine, cells>>

\* ... and returns with u overwritten, or raises.
SolveEnd ==
    /\ pc = "solving"
    /\ LET ok == Converges(radius, limit, RunField, RunG, RunBcs, RunDisp, RunPress)
           new == SolveField(radius, limit, RunField, RunG, RunBcs, RunDisp, RunPress)
       IN  /\ IF run = "refine"
              THEN u_loc' = new /\ u' = u
              ELSE u' = new /\ u_loc' = u_loc
           /\ lastSolved' = new
           /\ inflight' = inflight - 1
           /\ IF ok
              THEN /\ err' = err
                   /\ failedAt' = failedAt
                   /\ IF run = "pressure"
                      THEN pc' = AfterBody(i, n_steps) /\ i' = i + 1
                      ELSE pc' = "record" /\ i' = i
              ELSE /\ pc' = FailPc
                   /\ err' = "RuntimeError"
                   /\ failedAt' = i + 1
                   /\ i' = i
    /\ UNCHANGED <<solverVars, problemVars, r, pressure, total_force, run,
                   n_steps, target, increment, mesh_loc, pressure_loc,
                   current_pressure, loads, meas, printed, assigned, solves,
                   solvedAt, dirtyStart, afterRefine, cells>>

\* Lines 381, 513, 661: the load list grows.
RecordLoad ==
    /\ pc = "record"
    /\ run \in {"neo", "guc", "refine"}
    /\ loads' = AppendTo(loads, IF run = "refine" THEN current_pressure
                                ELSE LoadAt(increment, i))
    /\ pc' = "record2"
    /\ UNCHANGED <<solverVars, problemVars, u, r, pressure, total_force, run,
                   err, i, n_steps, target, increment, localVars, meas,
                   printed, assigned, solves, inflight, solvedAt, failedAt,
                   lastSolved, dirtyStart, afterRefine, cells>>

\* Lines 382, 514, 662: the measurement list grows; the body ends.
RecordMeas ==
    /\ pc = "record2"
    /\ run \in {"neo", "guc", "refine"}
    /\ IF run = "refine"
       THEN /\ meas' = AppendTo(meas, get_disp(u_loc))
            /\ u_loc' = FieldAfterSample(u_loc)
            /\ u' = u
       ELSE /\ meas' = AppendTo(meas, get_stress(P, u))
            /\ u' = FieldAfterSample(u)
            /\ u_loc' = u_loc
    /\ i' = i + 1
    /\ pc' = AfterBody(i, n_steps)
    /\ UNCHANGED <<solverVars, problemVars, r, pressure, total_force, run, err,
                   n_steps, target, increment, mesh_loc, pressure_loc,
                   current_pressure, loads, printed, assigned, solves,
                   inflight, solvedAt, failedAt, lastSolved, dirtyStart,
                   afterRefine, cells>>

\* A cell that runs no loop leaves the bookkeeping of runs empty.
NoRun(kind) ==
    /\ run' = kind
    /\ StartBookkeeping
    /\ n_steps' = 0
    /\ target' = Rat0
    /\ loads' = <<>>
    /\ meas' = <<>>
    /\ increment' = Unbound
    /\ NoFrame
    /\ UNCHANGED <<solverVars, total_force>>

\* One solve outside a loop, from whatever u holds, with r = rv.
SingleSolve(rv) ==
    /\ KernelIdle
    /\ NoRun("single")
    /\ LET pv == IF G.ext THEN pressure ELSE Rat0
       IN  /\ r' = rv
           /\ u' = SolveField(radius, limit, u, G, bcs, rv, pv)
           /\ lastSolved' = SolveField(radius, limit, u, G, bcs, rv, pv)
           /\ pc' = IF Converges(radius, limit, u, G, bcs, rv, pv)
                    THEN "done" ELSE "error"
    /\ UNCHANGED <<problemVars, pressure>>

\* Lines 303-304: solve with r as it is.
Cell22 == SingleSolve(r)

\* Lines 339-343: r becomes 10 mm (the value the text of line 330 gives
\* for the blank), then solve.
Cell26 == SingleSolve(RatOfInt(MAX_DISP))

\* Line 322: P = diff(W, F).
Cell24 ==
    /\ KernelIdle
    /\ NoRun("define")
    /\ pc' = "idle"
    /\ P' = W
    /\ lastSolved' = lastSolved
    /\ UNCHANGED <<W, G, dG, bcs, u, r, pressure>>

\* Lines 475-480: the material becomes Guccione.
Cell35 ==
    /\ KernelIdle
    /\ NoRun("define")
    /\ pc' = "idle"
    /\ W' = "guc"
    /\ G' = Residual("guc", FALSE)
    /\ dG' = Jacobian(Residual("guc", FALSE))
    /\ lastSolved' = lastSolved
    /\ UNCHANGED <<bcs, P, u, r, pressure>>

\* Lines 567-579: the pressure problem.
Cell41 ==
    /\ KernelIdle
    /\ NoRun("define")
    /\ pc' = "idle"
    /\ pressure' = Rat0
    /\ G' = Residual(W, TRUE)
    /\ dG' = Jacobian(Residual(W, TRUE))
    /\ bcs' = "left"
    /\ lastSolved' = lastSolved
    /\ UNCHANGED <<W, P, u, r>>

Next ==
    \/ \E n \in StepCounts, L \in Targets : BeginDisp("neo", n, L)
    \/ \E n \in StepCounts, L \in Targets : BeginDisp("guc", n, L)
    \/ SetLoadDisp
    \/ \E n \in StepCounts, tf \in Targets : BeginPressure(n, tf)
    \/ SetLoadPressure
    \/ \E n \in StepCounts, m \in Meshes : BeginRefine(n, m)
    \/ SetLoadRefine
    \/ SolveBegin
    \/ SolveEnd
    \/ RecordLoad
    \/ RecordMeas
    \/ Cell22
    \/ Cell26
    \/ Cell24
    \/ Cell35
    \/ Cell41

Spec == Init /\ [][Next]_vars


\* ============================================================== claims
DispRun == run \in {"neo", "guc"}
RecordingRun == run \in {"neo", "guc", "refine"}
LoopRun == run \in {"neo", "guc", "pressure", "refine"}

\* The target a run steps to: max_disp in the displacement loops, the
\* value of total_force the pressure loop and refine_benchmark read.
RunTarget == IF DispRun THEN target ELSE total_force

\* The boundary parameter of the run: r, or refine_benchmark's pressure.
RunParameter == IF run = "refine" THEN pressure_loc ELSE r

\* L*k/n
Fraction(L, k, n) == Rat(L[1] * k, L[2] * n)

\* The schedule of C1 for the values assigned so far to the boundary
\* parameter: at most n of them, the k-th equal to L*k/n and strictly
\* greater than the one before (the implicit zero before the first), the
\* value in effect for a solve the one of that step, and after a run that
\* completed exactly n of them, the last being L.
ScheduleHolds(L) ==
    /\ Len(assigned) <= n_steps
    /\ \A k \in 1 .. Len(assigned) :
          /\ assigned[k] = Fraction(L, k, n_steps)
          /\ RatLess(IF k = 1 THEN Rat0 ELSE assigned[k - 1], assigned[k])
    /\ pc \in {"solve", "solving"} =>
          /\ Len(assigned) = i + 1
          /\ RunParameter = assigned[i + 1]
    /\ pc = "done" =>
          /\ Len(assigned) = n_steps
          /\ assigned[n_steps] = L
          /\ RunParameter = L

C2_WarmStart ==
    (LoopRun /\ solves >= 1 /\ pc \in {"record", "record2", "set", "solve"})
        => /\ RunField = lastSolved
           /\ lastSolved.st = "conv"

C2_Witness ==
    /\ run = "neo" /\ pc = "solve" /\ i = 1 /\ solves = 1
    /\ u.st = "conv" /\ u.disp = <<1, 2>> /\ r = RatOfInt(1)

\* C3: once the solve of step k failed the cell has ended with the
\* solver's error: k solves were begun (no retry), the parameter was
\* set k times and no more (never, in the pressure loop), the steps
\* before k are the only ones recorded, the increment is still target/n,
\* and no statement of the loop can run.
C3_AbortOnFailure ==
    failedAt # 0 =>
        /\ pc = "error" /\ err = "RuntimeError"
        /\ solves = failedAt /\ inflight = 0
        /\ Len(assigned) = (IF RecordingRun THEN failedAt ELSE 0)
        /\ RecordingRun => (Len(loads) = failedAt /\ Len(meas) = failedAt)
        /\ run # "refine" => Len(printed) = failedAt
        /\ DispRun => increment = RatDivInt(target, n_steps)
        /\ ~ ENABLED (SetLoadDisp \/ SetLoadPressure \/ SetLoadRefine
                        \/ SolveBegin \/ SolveEnd \/ RecordLoad \/ RecordMeas)

C3_Witness ==
    /\ run = "neo" /\ failedAt = 3 /\ n_steps = N_STEPS
    /\ target = RatOfInt(MAX_DISP) /\ pc = "error"
    /\ Len(loads) = 3


\* C4 as stated: a run with step count 0 is rejected with an error; none
\* completes normally.
C4_ZeroStepsRejected ==
    (LoopRun /\ n_steps = 0) => (pc = "error" /\ err # "none")

\* The lists of a run at a step boundary (the top of the loop body, or
\* after the loop): equal lengths, one entry more than the steps
\* completed, the pair (0, 0) first, entry k+1 the load given to the
\* boundary parameter at step k, and n+1 entries after a complete run.
PairsHold ==
    /\ Len(loads) = Len(meas)
    /\ Len(loads) = 1 + i
    /\ loads[1] = Rat0 /\ meas[1] = ZeroEntry
    /\ \A k \in 1 .. i : loads[k + 1] = assigned[k]
    /\ pc = "done" => Len(loads) = n_steps + 1

\* C5 as stated, for the runs of at least one step: every load-stepping
\* run, the pressure loop of lines 596-604 included, yields such a
\* sequence of pairs.
C5_PairsEveryRun ==
    (LoopRun /\ n_steps >= 1 /\ pc \in {"set", "done"}) => PairsHold

\* C5 amended: the runs that keep lists (the two displacement loops and
\* refine_benchmark) yield such a sequence of pairs.
C5_PairsRecordingRuns ==
    (RecordingRun /\ pc \in {"set", "done"}) => PairsHold

C5_Witness ==
    /\ run = "refine" /\ pc = "done" /\ n_steps = STEPS
    /\ Len(loads) = STEPS + 1 /\ Len(meas) = STEPS + 1
    /\ loads[STEPS + 1] = RatOfInt(TOTAL_FORCE)

\* C6: a complete run of 10 steps to the target 10 has recorded exactly
\* 11 points, with the loads 0, 1, ..., 10 in that order.
C6_TenSteps ==
    (RecordingRun /\ pc = "done" /\ n_steps = 10
       /\ RunTarget = RatOfInt(10))
        => /\ loads = [k \in 1 .. 11 |-> RatOfInt(k - 1)]
           /\ Len(meas) = 11

C6_Witness ==
    /\ run = "guc" /\ pc = "done" /\ n_steps = 10 /\ target = RatOfInt(10)
    /\ Len(loads) = 11 /\ loads[11] = RatOfInt(10) /\ loads[1] = Rat0

\* The full run of the cell from the zero field, as a function of what
\* the cell is run with (step count, target, problem definition, solver):
\* the field it ends with, the two lists and how it ended.
RECURSIVE RefLoop(_, _, _, _)
RefLoop(k, field, ls, ms) ==
    IF k = n_steps
    THEN [u |-> field, loads |-> ls, meas |-> ms, pc |-> "done"]
    ELSE IF run = "refine" /\ total_force = Unbound
    THEN [u |-> field, loads |-> ls, meas |-> ms, pc |-> "error"]
    ELSE
      LET load == IF DispRun THEN LoadAt(increment, k)
                  ELSE LoadAt(RatDivInt(total_force, n_steps), k)
          rv == IF DispRun THEN load ELSE RunDisp
          pv == IF run = "refine" THEN load ELSE RunPress
          new == SolveField(radius, limit, field, RunG, RunBcs, rv, pv)
      IN  IF ~ Converges(radius, limit, field, RunG, RunBcs, rv, pv)
          THEN [u |-> new, loads |-> ls, meas |-> ms, pc |-> "error"]
          ELSE RefLoop(k + 1, new,
                       IF RecordingRun THEN Append(ls, load) ELSE ls,
                       IF RecordingRun
                       THEN Append(ms, IF run = "refine" THEN get_disp(new)
                                       ELSE get_stress(P, new))
                       ELSE ms)

RefRun ==
    LET zero == ZeroField(IF run = "refine" THEN mesh_loc ELSE NX_GLOBAL)
    IN  IF DispRun /\ n_steps = 0
        THEN [u |-> zero, loads |-> <<>>, meas |-> <<>>, pc |-> "error"]
        ELSE IF RecordingRun
        THEN RefLoop(0, zero, <<Rat0>>, <<ZeroEntry>>)
        ELSE RefLoop(0, zero, <<>>, <<>>)

\* C7, determinism: the field a full run ends with, its recorded lists
\* and the way it ended are a function of the step count, the target,
\* the problem definition and the solver alone, whatever was executed
\* before it; so two runs that agree on these agree on the result.
C7_Deterministic ==
    (LoopRun /\ pc \in {"done", "error"})
        => [u |-> RunField, loads |-> loads, meas |-> meas, pc |-> pc] = RefRun

\* A complete Guccione run, third cell of a session, started when u held
\* what an earlier cell had left.
C7_Witness ==
    /\ run = "guc" /\ pc = "done" /\ cells = 3 /\ dirtyStart
    /\ G.W = "guc" /\ n_steps = 2 /\ Len(loads) = 3

\* C9, serial execution: at most one solve is in progress, exactly while
\* the cell is inside solve(); when the parameter is set for a step and
\* when its solve is called, every solve begun before has returned, and
\* each earlier step has had exactly one.
C9_Serial ==
    /\ inflight \in {0, 1}
    /\ (inflight = 1) <=> (pc = "solving")
    /\ LoopRun =>
          /\ pc \in {"set", "solve"} => solves = i
          /\ pc = "solving" => solves = i + 1
          /\ Len(assigned) <= (solves - inflight) + 1

C9_Witness ==
    /\ run = "refine" /\ pc = "solving" /\ i = 1 /\ inflight = 1
    /\ solves = 2 /\ Len(assigned) = 2

\* C10: at the first solve of a run, and up to it, the field handed to
\* solve is the zero field, whatever u held when the cell was started.
C10_StartsFromZero ==
    (LoopRun /\ solves = 0 /\ pc \in {"set", "solve"})
        => RunField = ZeroField(IF run = "refine" THEN mesh_loc ELSE NX_GLOBAL)

\* The first solve of a Guccione run started with u nonzero.
C10_Witness ==
    /\ run = "guc" /\ pc = "solve" /\ i = 0 /\ solves = 0 /\ dirtyStart
    /\ G.W = "guc" /\ u.st = "zeros"

\* The field a converged solve of the run leaves when its boundary
\* parameter holds ld.
RunLoadField(ld) ==
    Converged(RunG, RunBcs, IF DispRun THEN ld ELSE RunDisp,
              IF run = "refine" THEN ld ELSE RunPress, RunField.mesh)

\* C11, order within a step, in the loops that record: when solve is
\* called the parameter has been set for that step and no pair of it is
\* recorded; a pair is recorded only after the solve of its step returned
\* converged and while the parameter still holds the load of that step,
\* the load first and then the measurement; every recorded measurement is
\* sampled from the field converged at the load it is paired with; and
\* after the solve of step k failed the lists hold the steps before k only.
C11_SetSolveRecord ==
    RecordingRun =>
        /\ pc \in {"solve", "solving"} =>
              /\ Len(assigned) = i + 1 /\ RunParameter = assigned[i + 1]
              /\ Len(loads) = i + 1 /\ Len(meas) = i + 1
              /\ solves = (IF pc = "solve" THEN i ELSE i + 1)
        /\ pc \in {"record", "record2"} =>
              /\ solves = i + 1 /\ inflight = 0 /\ failedAt = 0
              /\ Len(assigned) = i + 1 /\ RunParameter = assigned[i + 1]
              /\ RunField = RunLoadField(assigned[i + 1])
              /\ Len(meas) = i + 1
              /\ Len(loads) = (IF pc = "record" THEN i + 1 ELSE i + 2)
        /\ pc \in {"set", "done"} => Len(assigned) = i
        /\ \A k \in 2 .. Len(meas) :
              /\ k <= Len(loads)
              /\ loads[k] = assigned[k - 1]
              /\ meas[k].at = RunLoadField(loads[k])
        /\ failedAt # 0 =>
              /\ Len(loads) = failedAt /\ Len(meas) = failedAt
              /\ Len(assigned) = failedAt

\* The second pair of a neo-Hookean run being recorded: the load is in
\* the list, the stress is about to be sampled, r still holds that load.
C11_Witness ==
    /\ run = "neo" /\ pc = "record2" /\ i = 1 /\ n_steps = 2
    /\ loads = <<Rat0, <<1, 2>>, <<1, 1>> >> /\ Len(meas) = 2
    /\ r = RatOfInt(1) /\ u.st = "conv" /\ u.disp = RatOfInt(1)

\* The statements of a loop are executing.
InLoop == LoopRun /\ pc \in {"set", "solve", "solving", "record", "record2"}

\* C12, frame of a run: no statement of a load-stepping loop changes the
\* energy W, the residual G, the Jacobian dG, the list of boundary
\* conditions, the stress expression, the mesh the field lives on, the
\* step count, the target or the increment, nor a load Constant other
\* than the run's own parameter; what changes is among the parameter, the
\* field, the lists and the loop's position.
C12_Frame ==
    [][InLoop =>
         /\ UNCHANGED <<W, G, dG, bcs, P>>
         /\ UNCHANGED <<n_steps, target, increment, total_force, mesh_loc>>
         /\ UNCHANGED <<radius, limit, run>>
         /\ RunField'.mesh = RunField.mesh
         /\ pressure' = pressure
         /\ run \in {"pressure", "refine"} => r' = r
         /\ run = "refine" => u' = u
         /\ run # "refine" => UNCHANGED <<u_loc, pressure_loc, current_pressure>>
      ]_vars

\* A complete Guccione run of two steps, each with its solve, on the
\* mesh and the problem it was started with.
C12_Witness ==
    /\ run = "guc" /\ pc = "done" /\ n_steps = 2 /\ solves = 2
    /\ G = Residual("guc", FALSE) /\ dG = Jacobian(G)
    /\ u.st = "conv" /\ u.mesh = NX_GLOBAL /\ Len(loads) = 3

\* The value of the run's boundary parameter the k-th solve was begun
\* under: r in the displacement loops, the Constant pressure otherwise.
InEffect(k) == IF DispRun THEN solvedAt[k][1] ELSE solvedAt[k][2]

\* C13 as stated: in every loop, the pressure loop run on the pressure
\* problem of lines 567-579 included, the load printed for a step, and
\* the load appended for it where a list is kept, is the value the
\* boundary parameter held when the solve of that step was called.
C13_ReportedLoadInEffect ==
    (LoopRun /\ (run = "pressure" => (G.ext /\ pressure # Unbound))) =>
        \A k \in 1 .. Len(solvedAt) :
            /\ run # "refine" => printed[k] = InEffect(k)
            /\ (RecordingRun /\ k + 1 <= Len(loads)) => loads[k + 1] = InEffect(k)

\* C14 as stated: in a displacement-controlled cell run with the
\* material its text is about (the Guccione cell once W is the Guccione
\* energy) to a target above zero, every stress recorded is the
\* derivative of the energy the residual G of the run derives from.
C14_StressFromRunEnergy ==
    (DispRun /\ (G.W = "guc" <=> run = "guc") /\ RatLess(Rat0, target)) =>
        \A k \in 2 .. Len(meas) :
            meas[k].q = "stress" /\ meas[k].of = G.W

\* C15 as stated: whatever total_force is at notebook level, bound or
\* not, a call of refine_benchmark with at least one step raises no
\* NameError and records total_pressure*k/steps at step k, all steps of
\* them when it returns.
C15_ScheduleFromTotalPressure ==
    (run = "refine" /\ n_steps >= 1) =>
        /\ err # "NameError"
        /\ \A k \in 1 .. Len(loads) - 1 :
              loads[k + 1] = Fraction(RatOfInt(TOTAL_PRESSURE), k, n_steps)
        /\ pc = "done" => Len(loads) = n_steps + 1

\* C16 as stated, for the runs to a target above zero (the pressure loop
\* run on the pressure problem): at most n solves are begun, exactly n in
\* a run that completed, as many as the failed step in one that failed,
\* and no two of them under the same load value.
C16_BoundedDistinctSolves ==
    (LoopRun /\ n_steps >= 1 /\ RunTarget # Unbound
       /\ RatLess(Rat0, RunTarget)
       /\ (run = "pressure" => (G.ext /\ pressure # Unbound))) =>
        /\ solves <= n_steps /\ Len(solvedAt) = solves
        /\ pc = "done" => solves = n_steps
        /\ failedAt # 0 => (solves = failedAt /\ pc = "error")
        /\ \A j, k \in 1 .. Len(solvedAt) :
              j # k => InEffect(j) # InEffect(k)

\* What a call of refine_benchmark returns or how it ended: (disp,
\* pressures), the field of the call and the position it stopped at.
CallResult == [u |-> u_loc, loads |-> loads, meas |-> meas, pc |-> pc]

\* C17, independence of the calls of refine_benchmark: no step of a call,
\* its start included, changes the notebook-level u, r, pressure,
\* total_force or problem definition; and the result of a call that has
\* ended is the one a call with the same mesh gives from a new zero field
\* (under the total_force and the solver of the session), whichever
\* cells, other calls of refine_benchmark among them, ran before it.
C17_CallsIndependent ==
    /\ [][run' = "refine" =>
            UNCHANGED <<u, r, pressure, total_force, W, G, dG, bcs, P>>]_vars
    /\ []((run = "refine" /\ pc \in {"done", "error"}) => CallResult = RefRun)

\* A call on the 40-partition mesh that returned, started right after
\* another call of refine_benchmark, with the notebook's u still the
\* converged field an earlier cell left.
C17_Witness ==
    /\ run = "refine" /\ pc = "done" /\ afterRefine /\ mesh_loc = 40
    /\ n_steps = 2 /\ Len(loads) = 3 /\ u_loc.st = "conv" /\ u_loc.mesh = 40
    /\ u.mesh = NX_GLOBAL /\ total_force # Unbound

====
